---- MODULE Spec2Model ----
(***************************************************************************)
(* Model of the document ingestion and entity-extraction pipeline of the   *)
(* resume enhancer: services/document_parser.py (DocumentParser), the      *)
(* content check of utils/validators.py, and the session handling of the   *)
(* Streamlit app (app.py, components/file_upload.py, sidebar.py).          *)
(*                                                                         *)
(* An extracted text is a sequence of code points: 97 is "a", 32 is " ",   *)
(* 10 is "\n".  The text given to entity extraction is a sequence of words.*)
(***************************************************************************)
EXTENDS Integers, Sequences, FiniteSets, TLC

VARIABLES nlp, ner_pipeline, op, arg, ret, session, widget

vars == <<nlp, ner_pipeline, op, arg, ret, session, widget>>

\* ------------------------------------------------------------------ bounds
MaxPages == 2
MaxParas == 1
MaxRows == 1
MaxCells == 1
MaxEnts == 2
MaxBytes == 3

\* ------------------------------------------------------------- sequences
RECURSIVE SeqsUpTo(_, _)
SeqsUpTo(S, n) ==
  IF n = 0 THEN {<<>>}
  ELSE LET shorter == SeqsUpTo(S, n - 1)
       IN shorter \cup {Append(s, x) : s \in {t \in shorter : Len(t) = n - 1}, x \in S}

\* str.strip(): whitespace removed at both ends
IsSpace(c) ==
  c \in {9, 10, 11, 12, 13, 28, 29, 30, 31, 32, 133, 160, 5760, 8232, 8233, 8239, 8287, 12288}
  \/ (c >= 8192 /\ c <= 8202)

RECURSIVE LStrip(_)
LStrip(s) ==
  IF s = <<>> THEN s
  ELSE IF IsSpace(Head(s)) THEN LStrip(Tail(s)) ELSE s

RECURSIVE RStrip(_)
RStrip(s) ==
  IF s = <<>> THEN s
  ELSE IF IsSpace(s[Len(s)]) THEN RStrip(SubSeq(s, 1, Len(s) - 1)) ELSE s

Strip(s) == RStrip(LStrip(s))

\* ------------------------------------------------------ declared media type
\* A media type string is the concatenation of fragments; the fragments are
\* such that no searched literal straddles two of them.
PdfMime == "application/pdf"
DocxMime == "application/vnd.openxmlformats-officedocument.wordprocessingml.document"
TxtMime == "text/plain"

\* the literals extract_content searches for that occur inside a fragment
LiteralsIn(frag) ==
  CASE frag = PdfMime -> {"application/pdf"}
    [] frag = DocxMime -> {"wordprocessingml"}
    [] frag = TxtMime -> {"text/plain"}
    [] frag = "application/x-docx" -> {"docx"}
    [] OTHER -> {}

\* Python's  literal in file_type
Contains(file_type, literal) ==
  \E i \in 1..Len(file_type) : literal \in LiteralsIn(file_type[i])

\* the declared types of the files the parser is given
FileTypes ==
  {<<PdfMime>>, <<DocxMime>>, <<TxtMime>>, <<"application/x-docx">>,
   <<TxtMime, "; charset=utf-8">>, <<"image/png">>, <<"application/x-pdf">>}

\* the if/elif chain of extract_content
DetectFormat(file_type) ==
  IF Contains(file_type, "application/pdf") THEN "PDF"
  ELSE IF Contains(file_type, "wordprocessingml") \/ Contains(file_type, "docx") THEN "DOCX"
  ELSE IF Contains(file_type, "text/plain") THEN "PLAIN_TEXT"
  ELSE "UNSUPPORTED"

\* ---------------------------------------------------------------------- PDF
\* What a page yields to page.extract_text(): an exception, or a text that
\* may be falsy (None or "", both modelled as <<>>).
PageTexts == {<<>>, <<32>>, <<97>>}

PageOutcomes ==
  {[throws |-> FALSE, text |-> t] : t \in PageTexts} \cup {[throws |-> TRUE, text |-> <<>>]}

\* One library's view of a PDF: opening may fail, else a list of pages.
LibViews(n) ==
  {[opens |-> FALSE, pages |-> <<>>]} \cup
  {[opens |-> TRUE, pages |-> p] : p \in [1..n -> PageOutcomes]}

PdfDocs ==
  UNION {[plumber : LibViews(n), pypdf : LibViews(n)] : n \in 0..MaxPages}

\* The page loop shared in shape by both methods:  text += page_text + "\n"
\* for truthy page texts, until a page throws.
RECURSIVE PageLoop(_, _)
PageLoop(pages, text) ==
  IF pages = <<>> THEN [text |-> text, threw |-> FALSE]
  ELSE IF Head(pages).throws THEN [text |-> text, threw |-> TRUE]
  ELSE IF Head(pages).text # <<>>
       THEN PageLoop(Tail(pages), text \o Head(pages).text \o <<10>>)
       ELSE PageLoop(Tail(pages), text)

RunStrategy(view, text) ==
  IF ~view.opens THEN [text |-> text, threw |-> TRUE]
  ELSE PageLoop(view.pages, text)

\* faulty variant: the early  return text  after method 1 is missing
ExtractFromPdf_NoEarlyReturn(doc) ==
  LET m1 == RunStrategy(doc.plumber, <<>>)
      m2 == RunStrategy(doc.pypdf, m1.text)
  IN IF m2.threw
     THEN [status |-> "error", text |-> <<>>,
           calls |-> <<"pdfplumber", "PyPDF2">>,
           error |-> <<"Could not extract text from PDF">>,
           encoding |-> "none"]
     ELSE [status |-> "ok", text |-> m2.text,
           calls |-> <<"pdfplumber", "PyPDF2">>, error |-> <<>>,
           encoding |-> "none"]

ExtractFromPdf(doc) ==
  LET m1 == RunStrategy(doc.plumber, <<>>)
  IN IF ~m1.threw /\ Strip(m1.text) # <<>>
     THEN [status |-> "ok", text |-> m1.text, calls |-> <<"pdfplumber">>,
           error |-> <<>>, encoding |-> "none"]
     ELSE LET m2 == RunStrategy(doc.pypdf, m1.text)
          IN IF m2.threw
             THEN [status |-> "error", text |-> <<>>,
                   calls |-> <<"pdfplumber", "PyPDF2">>,
                   error |-> <<"Could not extract text from PDF">>,
                   encoding |-> "none"]
             ELSE [status |-> "ok", text |-> m2.text,
                   calls |-> <<"pdfplumber", "PyPDF2">>, error |-> <<>>,
                   encoding |-> "none"]

\* --------------------------------------------------------------------- DOCX
\* the text of a paragraph or of a table cell: blank, or not
ParaTexts == {<<32>>, <<97>>}

Rows == SeqsUpTo(ParaTexts, MaxCells)
RowSeqs == SeqsUpTo(Rows, MaxRows)

\* the rows of a document lie in one table, or each in a table of its own
Tables ==
  {<<>>} \cup {<<rows>> : rows \in RowSeqs}
  \cup {[i \in 1..Len(rows) |-> <<rows[i]>>] : rows \in RowSeqs}

DocxDocs ==
  {[opens |-> FALSE, paragraphs |-> <<>>, tables |-> <<>>]} \cup
  [opens : {TRUE}, paragraphs : SeqsUpTo(ParaTexts, MaxParas), tables : Tables]

RECURSIVE ParagraphLoop(_, _)
ParagraphLoop(paragraphs, text) ==
  IF paragraphs = <<>> THEN text
  ELSE IF Strip(Head(paragraphs)) # <<>>
       THEN ParagraphLoop(Tail(paragraphs), text \o Head(paragraphs) \o <<10>>)
       ELSE ParagraphLoop(Tail(paragraphs), text)

RECURSIVE CellLoop(_, _)
CellLoop(cells, text) ==
  IF cells = <<>> THEN text
  ELSE IF Strip(Head(cells)) # <<>>
       THEN CellLoop(Tail(cells), text \o Head(cells) \o <<32>>)
       ELSE CellLoop(Tail(cells), text)

RECURSIVE RowLoop(_, _)
RowLoop(rows, text) ==
  IF rows = <<>> THEN text
  ELSE RowLoop(Tail(rows), CellLoop(Head(rows), text) \o <<10>>)

RECURSIVE TableLoop(_, _)
TableLoop(tables, text) ==
  IF tables = <<>> THEN text
  ELSE TableLoop(Tail(tables), RowLoop(Head(tables), text))

ExtractFromDocx(doc) ==
  IF ~doc.opens
  THEN [status |-> "error", text |-> <<>>, calls |-> <<"docx">>,
        error |-> <<"DOCX extraction failed: ", "docx.Document">>,
        encoding |-> "none"]
  ELSE [status |-> "ok",
        text |-> TableLoop(doc.tables, ParagraphLoop(doc.paragraphs, <<>>)),
        calls |-> <<"docx">>, error |-> <<>>, encoding |-> "none"]

\* --------------------------------------------------------------- plain text
\* ' ', 'A', and bytes from which valid and invalid UTF-8 sequences can be built:
\* C3 A9 is U+00E9, E9 81 A9 is U+9069, a lone E9, 81 or A9 is invalid, and
\* 81 has no character in cp1252.
Bytes == {32, 65, 129, 169, 195, 233}

ByteStrings == SeqsUpTo(Bytes, MaxBytes)

\* number of continuation bytes a UTF-8 lead byte asks for, -1 if it is no lead
Utf8Need(b) ==
  IF b < 128 THEN 0
  ELSE IF b >= 194 /\ b <= 223 THEN 1
  ELSE IF b >= 224 /\ b <= 239 THEN 2
  ELSE IF b >= 240 /\ b <= 244 THEN 3
  ELSE -1

\* the range allowed for the k-th continuation byte after lead byte b
ContOk(b, k, c) ==
  IF k = 1 /\ b = 224 THEN c >= 160 /\ c <= 191
  ELSE IF k = 1 /\ b = 237 THEN c >= 128 /\ c <= 159
  ELSE IF k = 1 /\ b = 240 THEN c >= 144 /\ c <= 191
  ELSE IF k = 1 /\ b = 244 THEN c >= 128 /\ c <= 143
  ELSE c >= 128 /\ c <= 191

\* how many bytes from position i on form a prefix of a well-formed sequence
RECURSIVE GoodConts(_, _, _)
GoodConts(bytes, i, k) ==
  IF k > Utf8Need(bytes[i]) \/ i + k > Len(bytes) THEN 0
  ELSE IF ContOk(bytes[i], k, bytes[i + k]) THEN 1 + GoodConts(bytes, i, k + 1)
  ELSE 0

Utf8CodePoint(bytes, i) ==
  LET b == bytes[i]
      n == Utf8Need(b)
  IN IF n = 0 THEN b
     ELSE IF n = 1 THEN (b - 192) * 64 + (bytes[i + 1] - 128)
     ELSE IF n = 2 THEN (b - 224) * 4096 + (bytes[i + 1] - 128) * 64 + (bytes[i + 2] - 128)
     ELSE (b - 240) * 262144 + (bytes[i + 1] - 128) * 4096
          + (bytes[i + 2] - 128) * 64 + (bytes[i + 3] - 128)

\* bytes.decode('utf-8', errors): errors = "strict" raises UnicodeDecodeError
\* at the first ill-formed sequence, errors = "ignore" drops it (the lead byte
\* and the continuation bytes that were well-formed so far).
RECURSIVE Utf8From(_, _, _, _)
Utf8From(bytes, i, errors, text) ==
  IF i > Len(bytes) THEN [ok |-> TRUE, text |-> text]
  ELSE LET n == Utf8Need(bytes[i])
           good == IF n < 0 THEN 0 ELSE GoodConts(bytes, i, 1)
       IN IF n >= 0 /\ good = n
          THEN Utf8From(bytes, i + n + 1, errors, Append(text, Utf8CodePoint(bytes, i)))
          ELSE IF errors = "strict" THEN [ok |-> FALSE, text |-> <<>>]
          ELSE Utf8From(bytes, i + good + 1, errors, text)

\* latin-1 (alias iso-8859-1): every byte is the code point of the same value
Latin1(bytes) == [ok |-> TRUE, text |-> bytes]

Cp1252Undefined == {129, 141, 143, 144, 157}

Cp1252Char(b) ==
  CASE b = 128 -> 8364 [] b = 130 -> 8218 [] b = 131 -> 402 [] b = 132 -> 8222
    [] b = 133 -> 8230 [] b = 134 -> 8224 [] b = 135 -> 8225 [] b = 136 -> 710
    [] b = 137 -> 8240 [] b = 138 -> 352 [] b = 139 -> 8249 [] b = 140 -> 338
    [] b = 142 -> 381 [] b = 145 -> 8216 [] b = 146 -> 8217 [] b = 147 -> 8220
    [] b = 148 -> 8221 [] b = 149 -> 8226 [] b = 150 -> 8211 [] b = 151 -> 8212
    [] b = 152 -> 732 [] b = 153 -> 8482 [] b = 154 -> 353 [] b = 155 -> 8250
    [] b = 156 -> 339 [] b = 158 -> 382 [] b = 159 -> 376
    [] OTHER -> b

Cp1252(bytes) ==
  IF \E i \in 1..Len(bytes) : bytes[i] \in Cp1252Undefined
  THEN [ok |-> FALSE, text |-> <<>>]
  ELSE [ok |-> TRUE, text |-> [i \in 1..Len(bytes) |-> Cp1252Char(bytes[i])]]

\* content.decode(encoding)
Decode(bytes, encoding) ==
  CASE encoding = "utf-8" -> Utf8From(bytes, 1, "strict", <<>>)
    [] encoding = "latin-1" -> Latin1(bytes)
    [] encoding = "cp1252" -> Cp1252(bytes)
    [] encoding = "iso-8859-1" -> Latin1(bytes)

\* faulty variant: cp1252 is tried before latin-1
encodings_Cp1252First == <<"utf-8", "cp1252", "latin-1", "iso-8859-1">>

encodings == <<"utf-8", "latin-1", "cp1252", "iso-8859-1">>

\* the for loop over the encodings, then the errors='ignore' decode
RECURSIVE DecodeLoop(_, _, _)
DecodeLoop(bytes, encs, tried) ==
  IF encs = <<>>
  THEN [status |-> "ok", text |-> Utf8From(bytes, 1, "ignore", <<>>).text,
        calls |-> Append(tried, "utf-8/ignore"), error |-> <<>>,
        encoding |-> "utf-8/ignore"]
  ELSE LET d == Decode(bytes, Head(encs))
       IN IF d.ok
          THEN [status |-> "ok", text |-> d.text, calls |-> Append(tried, Head(encs)),
                error |-> <<>>, encoding |-> Head(encs)]
          ELSE DecodeLoop(bytes, Tail(encs), Append(tried, Head(encs)))

\* faulty variant: only the default encoding is tried before the permissive decode
ExtractFromTxt_DefaultOnly(bytes) == DecodeLoop(bytes, <<"utf-8">>, <<>>)

ExtractFromTxt(bytes) == DecodeLoop(bytes, encodings, <<>>)

\* ----------------------------------------------------------- extract_content
Files ==
  {[type |-> t, body |-> b] : t \in {x \in FileTypes : DetectFormat(x) = "PDF"}, b \in PdfDocs}
  \cup {[type |-> t, body |-> b] : t \in {x \in FileTypes : DetectFormat(x) = "DOCX"}, b \in DocxDocs}
  \cup {[type |-> t, body |-> b] : t \in {x \in FileTypes : DetectFormat(x) = "PLAIN_TEXT"},
                                   b \in ByteStrings}
  \cup {[type |-> t, body |-> <<>>] : t \in {x \in FileTypes : DetectFormat(x) = "UNSUPPORTED"}}

Dispatch(file) ==
  LET fmt == DetectFormat(file.type)
      r == CASE fmt = "PDF" -> ExtractFromPdf(file.body)
             [] fmt = "DOCX" -> ExtractFromDocx(file.body)
             [] fmt = "PLAIN_TEXT" -> ExtractFromTxt(file.body)
             [] OTHER -> [status |-> "error", text |-> <<>>, calls |-> <<>>,
                          error |-> <<"Unsupported file type: ">>, encoding |-> "none"]
  IN IF fmt = "UNSUPPORTED" THEN r
     ELSE [r EXCEPT !.calls = <<fmt>> \o @]

\* the outer try/except re-raises every failure as "Content extraction failed"
ExtractContentOf(file) ==
  LET r == Dispatch(file)
  IN IF r.status = "error"
     THEN [r EXCEPT !.error = <<"Content extraction failed: ">> \o @]
     ELSE r

\* --------------------------------------------------------- entity extraction
\* The text given to extract_entities is a sequence of words, standing for
\* the string of these words joined by single spaces.
Words ==
  {"jane@example.com", "bob@example.org", "555-123-4567", "555.123.4567",
   "Python", "python", "JavaScript", "University", "Software Engineer",
   "Developer", "at", "Acme", "Corp", "-", ".",
   "Experience", "Education", "Skills", "Summary", "Objective", "*",
   "\n\n\n\n\n\n",
   "lorem ipsum dolor sit amet consectetur a",
   "lorem\nipsum\ndolor\nsit\namet\nconsectetur\na",
   "lorem ipsum dolor sit amet consec",
   "a\nb\nc\nd\ne\nf", "a\nb\nc\nd\ne"}

\* dict[key] = value
Put(dict, key, value) ==
  [k \in DOMAIN dict \cup {key} |-> IF k = key THEN value ELSE dict[k]]

EmptyDict == [k \in {} |-> ""]

EmptyEntities ==
  [personal_info |-> EmptyDict, contact_info |-> EmptyDict, skills |-> <<>>,
   experience |-> <<>>, education |-> <<>>, projects |-> <<>>,
   organizations |-> <<>>, locations |-> <<>>]

RECURSIVE ProcessNerResults(_, _)
ProcessNerResults(ner_results, entities) ==
  IF ner_results = <<>> THEN entities
  ELSE LET entity == Head(ner_results)
           next ==
             IF entity.entity_group = "PER"
             THEN IF "name" \notin DOMAIN entities.personal_info
                  THEN [entities EXCEPT !.personal_info = Put(@, "name", entity.word)]
                  ELSE entities
             ELSE IF entity.entity_group = "ORG"
             THEN [entities EXCEPT !.organizations = Append(@, entity.word)]
             ELSE IF entity.entity_group = "LOC"
             THEN [entities EXCEPT !.locations = Append(@, entity.word)]
             ELSE entities
       IN ProcessNerResults(Tail(ner_results), next)

\* faulty variant: the  'name' not in entities['personal_info']  test is missing
RECURSIVE ProcessSpacyResults_Overwrite(_, _)
ProcessSpacyResults_Overwrite(ents, entities) ==
  IF ents = <<>> THEN entities
  ELSE LET ent == Head(ents)
           next ==
             IF ent.label_ = "PERSON"
             THEN [entities EXCEPT !.personal_info = Put(@, "name", ent.text)]
             ELSE IF ent.label_ = "ORG"
             THEN [entities EXCEPT !.organizations = Append(@, ent.text)]
             ELSE IF ent.label_ \in {"GPE", "LOC"}
             THEN [entities EXCEPT !.locations = Append(@, ent.text)]
             ELSE entities
       IN ProcessSpacyResults_Overwrite(Tail(ents), next)

RECURSIVE ProcessSpacyResults(_, _)
ProcessSpacyResults(ents, entities) ==
  IF ents = <<>> THEN entities
  ELSE LET ent == Head(ents)
           next ==
             IF ent.label_ = "PERSON" /\ "name" \notin DOMAIN entities.personal_info
             THEN [entities EXCEPT !.personal_info = Put(@, "name", ent.text)]
             ELSE IF ent.label_ = "ORG"
             THEN [entities EXCEPT !.organizations = Append(@, ent.text)]
             ELSE IF ent.label_ \in {"GPE", "LOC"}
             THEN [entities EXCEPT !.locations = Append(@, ent.text)]
             ELSE entities
       IN ProcessSpacyResults(Tail(ents), next)

\* ---- the patterns of _extract_with_regex, word by word
\* the match of email_pattern inside a word
EmailIn(w) ==
  IF w \in {"jane@example.com", "bob@example.org"} THEN <<w>> ELSE <<>>

\* The groups of the first match of phone pattern n inside a word.  Pattern 1
\* has four groups; its optional prefix group takes the space in front of the
\* number when the word is not the first of the text.  Pattern 2 matches only
\* where pattern 1 does.  Pattern 3 has no group and yields the match itself.
PhoneIn(w, n, first) ==
  IF n \in {1, 2} /\ w = "555-123-4567"
  THEN IF n = 1 THEN <<IF first THEN "" ELSE " ", "555", "123", "4567">>
       ELSE <<"">>
  ELSE IF n = 3 /\ w \in {"555-123-4567", "555.123.4567"} THEN <<w>>
  ELSE <<>>

RECURSIVE FirstPhone(_, _, _)
FirstPhone(text, n, i) ==
  IF i > Len(text) THEN <<>>
  ELSE IF PhoneIn(text[i], n, i = 1) # <<>> THEN PhoneIn(text[i], n, i = 1)
  ELSE FirstPhone(text, n, i + 1)

RECURSIVE PhoneLoop(_, _, _)
PhoneLoop(text, n, entities) ==
  IF n > 3 THEN entities
  ELSE IF FirstPhone(text, n, 1) # <<>>
       THEN [entities EXCEPT !.contact_info = Put(@, "phone", FirstPhone(text, n, 1))]
       ELSE PhoneLoop(text, n + 1, entities)

skill_keywords ==
  <<"Python", "Java", "JavaScript", "React", "Node.js", "SQL", "MongoDB",
    "Machine Learning", "Data Science", "AI", "TensorFlow", "PyTorch",
    "AWS", "Docker", "Kubernetes", "Git", "Linux", "HTML", "CSS",
    "Project Management", "Leadership", "Communication", "Problem Solving",
    "Teamwork", "Critical Thinking", "Time Management">>

\* the keywords whose lower-cased form is a substring of the lower-cased word
SkillsIn(w) ==
  CASE w \in {"Python", "python"} -> {"Python"}
    [] w = "JavaScript" -> {"Java", "JavaScript"}
    [] OTHER -> {}

education_keywords ==
  <<"Bachelor", "Master", "PhD", "University", "College", "Institute",
    "Computer Science", "Engineering", "Business", "Mathematics",
    "B.S.", "M.S.", "MBA", "B.A.", "M.A.">>

EducationIn(w) == IF w = "University" THEN {"University"} ELSE {}

\* faulty variant: every occurrence is collected as the text spells it
found_skills_PerOccurrence(text) == SelectSeq(text, LAMBDA w : SkillsIn(w) # {})

found_skills(text) ==
  SelectSeq(skill_keywords, LAMBDA k : \E i \in 1..Len(text) : k \in SkillsIn(text[i]))

education_found(text) ==
  SelectSeq(education_keywords, LAMBDA k : \E i \in 1..Len(text) : k \in EducationIn(text[i]))

\* list(set(found_skills)): the same skills in an order the hashing decides
RECURSIVE Orderings(_)
Orderings(S) ==
  IF S = {} THEN {<<>>}
  ELSE UNION {{<<x>> \o rest : rest \in Orderings(S \ {x})} : x \in S}

SkillOrders(text) ==
  Orderings({found_skills(text)[i] : i \in 1..Len(found_skills(text))})

\* character class [A-Za-z0-9\s&] of the company group
IsPure(w) == w \notin {"jane@example.com", "bob@example.org", "555-123-4567",
                       "555.123.4567", "-", ".", "*"}

\* longest prefix and suffix of a word inside the class
ClassPrefix(w) ==
  CASE w = "jane@example.com" -> <<"jane">>
    [] w = "bob@example.org" -> <<"bob">>
    [] w \in {"555-123-4567", "555.123.4567"} -> <<"555">>
    [] w \in {"-", ".", "*"} -> <<>>
    [] OTHER -> <<w>>

ClassSuffix(w) ==
  CASE w = "jane@example.com" -> <<"com">>
    [] w = "bob@example.org" -> <<"org">>
    [] w \in {"555-123-4567", "555.123.4567"} -> <<"4567">>
    [] w \in {"-", ".", "*"} -> <<>>
    [] OTHER -> <<w>>

IsRole(w) == w \in {"Software Engineer", "Developer"}
IsAt(w) == w = "at"
IsDash(w) == w = "-"

\* the greedy company group starting at word j: whole words while they are in
\* the class, then the prefix of the first word that is not
RECURSIVE CompanyRun(_, _, _)
CompanyRun(text, j, pieces) ==
  IF j > Len(text) THEN [pieces |-> pieces, next |-> j]
  ELSE IF IsPure(text[j]) THEN CompanyRun(text, j + 1, Append(pieces, text[j]))
  ELSE [pieces |-> pieces \o ClassPrefix(text[j]), next |-> j + 1]

\* re.findall of "<role> at <company>": tuples (role, company)
RECURSIVE FindRoleAtCompany(_, _)
FindRoleAtCompany(text, i) ==
  IF i + 2 > Len(text) THEN <<>>
  ELSE IF IsRole(text[i]) /\ IsAt(text[i + 1]) /\ ClassPrefix(text[i + 2]) # <<>>
       THEN LET run == CompanyRun(text, i + 2, <<>>)
            IN <<<<(<<text[i]>>), run.pieces>>>> \o FindRoleAtCompany(text, run.next)
       ELSE FindRoleAtCompany(text, i + 1)

\* re.findall of "<company> - <role>": tuples (company, role).  run holds the
\* class characters read since the last character outside the class or the
\* end of the last match; a dash that is not the first word has at least the
\* space in front of it.
RECURSIVE FindCompanyDashRole(_, _, _)
FindCompanyDashRole(text, i, run) ==
  IF i > Len(text) THEN <<>>
  ELSE IF IsDash(text[i])
       THEN IF i > 1 /\ i + 1 <= Len(text) /\ IsRole(text[i + 1])
            THEN <<<<run, (<<text[i + 1]>>)>>>> \o FindCompanyDashRole(text, i + 2, <<>>)
            ELSE FindCompanyDashRole(text, i + 1, <<>>)
       ELSE IF IsPure(text[i])
       THEN FindCompanyDashRole(text, i + 1, Append(run, text[i]))
       ELSE FindCompanyDashRole(text, i + 1, ClassSuffix(text[i]))

experience_matches(text) ==
  <<FindRoleAtCompany(text, 1), FindCompanyDashRole(text, 1, <<>>)>>

\* the two nested for loops: every match is unpacked as  role, company = match
RECURSIVE AppendMatches(_, _)
AppendMatches(matches, experience) ==
  IF matches = <<>> THEN experience
  ELSE AppendMatches(Tail(matches),
         Append(experience, [role |-> Head(matches)[1], company |-> Head(matches)[2]]))

\* faulty variant: the last match is taken (emails[-1])
RECURSIVE FirstEmail_Last(_, _)
FirstEmail_Last(text, i) ==
  IF i > Len(text) THEN <<>>
  ELSE IF FirstEmail_Last(text, i + 1) # <<>> THEN FirstEmail_Last(text, i + 1)
  ELSE EmailIn(text[i])

RECURSIVE FirstEmail(_, _)
FirstEmail(text, i) ==
  IF i > Len(text) THEN <<>>
  ELSE IF EmailIn(text[i]) # <<>> THEN EmailIn(text[i])
  ELSE FirstEmail(text, i + 1)

\* skills is the order list(set(...)) happened to give
ExtractWithRegex(text, entities, skills) ==
  LET e1 == IF FirstEmail(text, 1) # <<>>
            THEN [entities EXCEPT !.contact_info = Put(@, "email", FirstEmail(text, 1)[1])]
            ELSE entities
      e2 == PhoneLoop(text, 1, e1)
      e3 == [e2 EXCEPT !.skills = skills]
      e4 == [e3 EXCEPT !.experience =
               AppendMatches(experience_matches(text)[2],
                 AppendMatches(experience_matches(text)[1], @))]
  IN IF education_found(text) # <<>>
     THEN [e4 EXCEPT !.education = education_found(text)]
     ELSE e4

\* What a learned source does with the text: it throws, or it returns the
\* entities it recognised (results is what it recognised in either case).
NerEntities ==
  {[entity_group |-> "PER", word |-> "Jane"], [entity_group |-> "PER", word |-> "Bob"],
   [entity_group |-> "ORG", word |-> "Acme"], [entity_group |-> "LOC", word |-> "Paris"],
   [entity_group |-> "MISC", word |-> "Nobel"]}

SpacyEntities ==
  {[label_ |-> "PERSON", text |-> "Bob"], [label_ |-> "PERSON", text |-> "Ann"],
   [label_ |-> "ORG", text |-> "Acme"], [label_ |-> "GPE", text |-> "Paris"],
   [label_ |-> "LOC", text |-> "Alps"]}

NerRuns == [throws : BOOLEAN, results : SeqsUpTo(NerEntities, MaxEnts)]
SpacyRuns == [throws : BOOLEAN, results : SeqsUpTo(SpacyEntities, MaxEnts)]

\* a source whose model is None is not invoked
NotInvoked == [throws |-> FALSE, results |-> <<>>]

\* what the two sources do with one text: the models that are loaded are
\* invoked, and together they recognise at most MaxEnts entities
SourceRuns(nerModel, nlpModel) ==
  {run \in [ner : IF nerModel = "loaded" THEN NerRuns ELSE {NotInvoked},
            spacy : IF nlpModel = "loaded" THEN SpacyRuns ELSE {NotInvoked}] :
     Len(run.ner.results) + Len(run.spacy.results) <= MaxEnts}

EntityTexts ==
  {<<>>,
   <<"bob@example.org", "jane@example.com">>,
   <<"Software Engineer", "at", "Acme", "Corp">>,
   <<"Acme", "-", "Developer", "at", "Corp">>,
   <<"Developer", "at", "Acme", ".", "Developer", "at", "Acme">>,
   <<"Software Engineer", "at", "Acme", "Corp", "Python">>,
   <<"Python", "python", "University">>,
   <<"python", "Python">>,
   <<"JavaScript">>,
   <<".", "555-123-4567", "jane@example.com">>,
   <<"555.123.4567">>,
   <<"\n\n\n\n\n\n">>,
   <<"lorem ipsum dolor sit amet consectetur a">>,
   <<"lorem\nipsum\ndolor\nsit\namet\nconsectetur\na">>,
   <<"Python", "lorem ipsum dolor sit amet consec">>,
   <<"lorem ipsum dolor sit amet consectetur a",
     "lorem ipsum dolor sit amet consectetur a",
     "lorem ipsum dolor sit amet consectetur a">>,
   <<"Experience", "Education", "Skills", "Summary", "Objective",
     "jane@example.com", "555-123-4567", "*">>,
   <<"a\nb\nc\nd\ne\nf">>,
   <<"a\nb\nc\nd\ne">>}

\* faulty variant: the except handler logs the error and does not run the patterns
ExtractEntitiesOf_NoFallback(nerModel, nlpModel, text, ner, spacy, skills) ==
  LET useNer == nerModel = "loaded"
      useSpacy == nlpModel = "loaded"
      e1 == IF useNer THEN ProcessNerResults(ner.results, EmptyEntities)
            ELSE EmptyEntities
      e2 == IF useSpacy THEN ProcessSpacyResults(spacy.results, e1) ELSE e1
  IN IF useNer /\ ner.throws
     THEN [status |-> "ok", entities |-> EmptyEntities, calls |-> <<"ner_pipeline">>]
     ELSE IF useSpacy /\ spacy.throws
     THEN [status |-> "ok", entities |-> e1,
           calls |-> (IF useNer THEN <<"ner_pipeline">> ELSE <<>>) \o <<"nlp">>]
     ELSE [status |-> "ok", entities |-> ExtractWithRegex(text, e2, skills),
           calls |-> (IF useNer THEN <<"ner_pipeline">> ELSE <<>>)
                     \o (IF useSpacy THEN <<"nlp">> ELSE <<>>)
                     \o <<"_extract_with_regex">>]

\* faulty variant: a source hands over its entities one by one and throws at the end,
\* so the record already holds them when the handler runs
ExtractEntitiesOf_LeakFailed(nerModel, nlpModel, text, ner, spacy, skills) ==
  LET useNer == nerModel = "loaded"
      useSpacy == nlpModel = "loaded"
      e1 == IF useNer THEN ProcessNerResults(ner.results, EmptyEntities)
            ELSE EmptyEntities
      e2 == IF useSpacy THEN ProcessSpacyResults(spacy.results, e1) ELSE e1
  IN IF useNer /\ ner.throws
     THEN [status |-> "ok", entities |-> ExtractWithRegex(text, e1, skills),
           calls |-> <<"ner_pipeline", "_extract_with_regex">>]
     ELSE IF useSpacy /\ spacy.throws
     THEN [status |-> "ok", entities |-> ExtractWithRegex(text, e2, skills),
           calls |-> (IF useNer THEN <<"ner_pipeline">> ELSE <<>>)
                     \o <<"nlp", "_extract_with_regex">>]
     ELSE [status |-> "ok", entities |-> ExtractWithRegex(text, e2, skills),
           calls |-> (IF useNer THEN <<"ner_pipeline">> ELSE <<>>)
                     \o (IF useSpacy THEN <<"nlp">> ELSE <<>>)
                     \o <<"_extract_with_regex">>]

\* faulty variant: the handler calls a source that threw once more before the patterns
ExtractEntitiesOf_RetryFailed(nerModel, nlpModel, text, ner, spacy, skills) ==
  LET useNer == nerModel = "loaded"
      useSpacy == nlpModel = "loaded"
      e1 == IF useNer THEN ProcessNerResults(ner.results, EmptyEntities)
            ELSE EmptyEntities
      e2 == IF useSpacy THEN ProcessSpacyResults(spacy.results, e1) ELSE e1
  IN IF useNer /\ ner.throws
     THEN [status |-> "ok", entities |-> ExtractWithRegex(text, EmptyEntities, skills),
           calls |-> <<"ner_pipeline", "ner_pipeline", "_extract_with_regex">>]
     ELSE IF useSpacy /\ spacy.throws
     THEN [status |-> "ok", entities |-> ExtractWithRegex(text, e1, skills),
           calls |-> (IF useNer THEN <<"ner_pipeline">> ELSE <<>>)
                     \o <<"nlp", "nlp", "_extract_with_regex">>]
     ELSE [status |-> "ok", entities |-> ExtractWithRegex(text, e2, skills),
           calls |-> (IF useNer THEN <<"ner_pipeline">> ELSE <<>>)
                     \o (IF useSpacy THEN <<"nlp">> ELSE <<>>)
                     \o <<"_extract_with_regex">>]

\* faulty variant: the handler runs the patterns on a record the try block
\* has already run them on
ExtractEntitiesOf_PatternsTwice(nerModel, nlpModel, text, ner, spacy, skills) ==
  LET useNer == nerModel = "loaded"
      useSpacy == nlpModel = "loaded"
      e1 == IF useNer THEN ProcessNerResults(ner.results, EmptyEntities)
            ELSE EmptyEntities
      e2 == IF useSpacy THEN ProcessSpacyResults(spacy.results, e1) ELSE e1
  IN IF useNer /\ ner.throws
     THEN [status |-> "ok",
           entities |-> ExtractWithRegex(text,
                          ExtractWithRegex(text, EmptyEntities, skills), skills),
           calls |-> <<"ner_pipeline", "_extract_with_regex", "_extract_with_regex">>]
     ELSE IF useSpacy /\ spacy.throws
     THEN [status |-> "ok",
           entities |-> ExtractWithRegex(text, ExtractWithRegex(text, e1, skills), skills),
           calls |-> (IF useNer THEN <<"ner_pipeline">> ELSE <<>>)
                     \o <<"nlp", "_extract_with_regex", "_extract_with_regex">>]
     ELSE [status |-> "ok", entities |-> ExtractWithRegex(text, e2, skills),
           calls |-> (IF useNer THEN <<"ner_pipeline">> ELSE <<>>)
                     \o (IF useSpacy THEN <<"nlp">> ELSE <<>>)
                     \o <<"_extract_with_regex">>]

\* extract_entities: the try block runs the available sources and then the
\* pattern matchers; any exception ends the block and runs the pattern
\* matchers on the record as it is at that point.
ExtractEntitiesOf(nerModel, nlpModel, text, ner, spacy, skills) ==
  LET useNer == nerModel = "loaded"
      useSpacy == nlpModel = "loaded"
      e1 == IF useNer THEN ProcessNerResults(ner.results, EmptyEntities)
            ELSE EmptyEntities
      e2 == IF useSpacy THEN ProcessSpacyResults(spacy.results, e1) ELSE e1
  IN IF useNer /\ ner.throws
     THEN [status |-> "ok", entities |-> ExtractWithRegex(text, EmptyEntities, skills),
           calls |-> <<"ner_pipeline", "_extract_with_regex">>]
     ELSE IF useSpacy /\ spacy.throws
     THEN [status |-> "ok", entities |-> ExtractWithRegex(text, e1, skills),
           calls |-> (IF useNer THEN <<"ner_pipeline">> ELSE <<>>)
                     \o <<"nlp", "_extract_with_regex">>]
     ELSE [status |-> "ok", entities |-> ExtractWithRegex(text, e2, skills),
           calls |-> (IF useNer THEN <<"ner_pipeline">> ELSE <<>>)
                     \o (IF useSpacy THEN <<"nlp">> ELSE <<>>)
                     \o <<"_extract_with_regex">>]

\* ---------------------------------------------------------------- the parser
\* load_models: any failure while loading either model leaves both unset
SpacyLoads == {"ok", "missing_then_ok", "missing_then_fail", "fail"}

LoadModels(spacyLoad, hfLoads) ==
  IF spacyLoad \in {"ok", "missing_then_ok"} /\ hfLoads
  THEN [nlp |-> "loaded", ner_pipeline |-> "loaded"]
  ELSE [nlp |-> "None", ner_pipeline |-> "None"]

\* ------------------------------------------------------------- validation
\* len(content): the words of a text are joined by single spaces
RECURSIVE ContentLen(_)
ContentLen(text) ==
  IF text = <<>> THEN 0
  ELSE Len(Head(text)) + (IF Len(text) > 1 THEN 1 ELSE 0) + ContentLen(Tail(text))

\* words made of whitespace only
IsBlank(w) == w = "\n\n\n\n\n\n"

\* not content or len(content.strip()) == 0
NoContent(text) == \A i \in 1..Len(text) : IsBlank(text[i])

sections == <<"experience", "education", "skills", "summary", "objective">>

\* the section words that are substrings of the lower-cased word
SectionsIn(w) ==
  CASE w = "Experience" -> {"experience"}
    [] w = "Education" -> {"education"}
    [] w = "Skills" -> {"skills"}
    [] w = "Summary" -> {"summary"}
    [] w = "Objective" -> {"objective"}
    [] OTHER -> {}

found_sections(text) ==
  Len(SelectSeq(sections, LAMBDA s : \E i \in 1..Len(text) : s \in SectionsIn(text[i])))

\* re.search of the validator's e-mail and phone patterns
ContentHasEmail(text) ==
  \E i \in 1..Len(text) : text[i] \in {"jane@example.com", "bob@example.org"}

ContentHasPhone(text) ==
  \E i \in 1..Len(text) : text[i] \in {"555-123-4567", "555.123.4567"}

\* a bullet marker in content
HasBullet(text) == \E i \in 1..Len(text) : text[i] = "*"

NewlinesIn(w) ==
  CASE w = "\n\n\n\n\n\n" -> 6
    [] w = "lorem\nipsum\ndolor\nsit\namet\nconsectetur\na" -> 6
    [] w = "a\nb\nc\nd\ne\nf" -> 5
    [] w = "a\nb\nc\nd\ne" -> 4
    [] OTHER -> 0

\* content.count('\n')
RECURSIVE CountNewlines(_)
CountNewlines(text) ==
  IF text = <<>> THEN 0 ELSE NewlinesIn(Head(text)) + CountNewlines(Tail(text))

Min(a, b) == IF a < b THEN a ELSE b

quality_score(text) ==
  Min((IF ContentLen(text) > 100 THEN 20 ELSE 0)
      + found_sections(text) * 15
      + (IF ContentHasEmail(text) THEN 15 ELSE 0)
      + (IF ContentHasPhone(text) THEN 10 ELSE 0)
      + (IF HasBullet(text) \/ CountNewlines(text) > 5 THEN 10 ELSE 0),
      100)

validate_content_extraction(text) ==
  IF NoContent(text)
  THEN [valid |-> FALSE, quality_score |-> 0,
        issues |-> <<"No content extracted from file">>, suggestions |-> <<>>]
  ELSE [valid |-> TRUE, quality_score |-> quality_score(text), issues |-> <<>>,
        suggestions |->
          (IF quality_score(text) < 50
           THEN <<"Content quality seems low - ensure the file is not corrupted">>
           ELSE <<>>)
          \o (IF found_sections(text) < 2
              THEN <<"Consider using a more structured resume format">> ELSE <<>>)
          \o (IF ~ContentHasEmail(text)
              THEN <<"Make sure your contact email is clearly visible">> ELSE <<>>)]

\* entities['contact_info'].get(key) is truthy; the phone is the join of the
\* groups of its match
HasContact(entities, key) ==
  /\ key \in DOMAIN entities.contact_info
  /\ IF key = "phone"
     THEN \E i \in 1..Len(entities.contact_info[key]) :
            entities.contact_info[key][i] # ""
     ELSE entities.contact_info[key] # ""

\* faulty variant: the experience list is not looked at
validate_extraction_NoExperienceCheck(entities) ==
  LET email == ~HasContact(entities, "email")
      phone == ~HasContact(entities, "phone")
      skills == entities.skills = <<>>
      If(c, x) == IF c THEN <<x>> ELSE <<>>
  IN [valid |-> TRUE,
      warnings |-> If(email, "No email address found")
                   \o If(phone, "No phone number found")
                   \o If(skills, "No skills detected"),
      suggestions |-> If(email, "Consider adding your email address")
                      \o If(phone, "Consider adding your phone number")
                      \o If(skills, "Consider adding a skills section")]

validate_extraction(entities) ==
  LET email == ~HasContact(entities, "email")
      phone == ~HasContact(entities, "phone")
      skills == entities.skills = <<>>
      experience == entities.experience = <<>>
      If(c, x) == IF c THEN <<x>> ELSE <<>>
  IN [valid |-> TRUE,
      warnings |-> If(email, "No email address found")
                   \o If(phone, "No phone number found")
                   \o If(skills, "No skills detected")
                   \o If(experience, "No work experience detected"),
      suggestions |-> If(email, "Consider adding your email address")
                      \o If(phone, "Consider adding your phone number")
                      \o If(skills, "Consider adding a skills section")
                      \o If(experience, "Consider adding work experience details")]

\* ---------------------------------------------------------------- actions
\* init_session_state; None is <<>> and a value x is <<x>>
InitSession ==
  [uploaded_file |-> <<>>, file_name |-> <<>>, last_processed_file |-> <<>>,
   content_extracted |-> <<>>, extracted_content |-> <<>>,
   enhanced_resume |-> <<>>, cover_letter |-> <<>>, processing_stage |-> "upload"]

\* no parser has been built, no call is open, the session is new and the
\* file_uploader widget is empty
Init ==
  /\ nlp = "unset"
  /\ ner_pipeline = "unset"
  /\ op = "none"
  /\ arg = <<>>
  /\ ret = <<>>
  /\ session = InitSession
  /\ widget = <<>>

\* process_resume builds a new DocumentParser for every run
NewParser ==
  /\ op = "none"
  /\ \E spacyLoad \in SpacyLoads, hfLoads \in BOOLEAN :
       /\ nlp' = LoadModels(spacyLoad, hfLoads).nlp
       /\ ner_pipeline' = LoadModels(spacyLoad, hfLoads).ner_pipeline
       /\ op' = "__init__"
       /\ arg' = <<spacyLoad, hfLoads>>
       /\ ret' = <<>>
  /\ UNCHANGED <<session, widget>>

ExtractContent ==
  /\ op = "none"
  /\ nlp # "unset"
  /\ \E file \in Files :
       /\ op' = "extract_content"
       /\ arg' = file
       /\ ret' = ExtractContentOf(file)
  /\ UNCHANGED <<nlp, ner_pipeline, session, widget>>

\* extract_entities is inside the call of a learned source that has not
\* completed; nothing bounds the time the call may take
Pending == op \in {"ner_pipeline", "nlp"}

\* the caller takes the result of the call; the parser is ready for the next
Return ==
  /\ op # "none"
  /\ ~Pending
  /\ op' = "none"
  /\ arg' = <<>>
  /\ ret' = <<>>
  /\ UNCHANGED <<nlp, ner_pipeline, session, widget>>

\* the sources either complete (with results or an exception) and the call
\* returns the record, or the call of a loaded source does not complete
ExtractEntities ==
  /\ op = "none"
  /\ nlp # "unset"
  /\ \/ \E text \in EntityTexts, run \in SourceRuns(ner_pipeline, nlp) :
          \E skills \in SkillOrders(text) :
            /\ op' = "extract_entities"
            /\ arg' = [text |-> text, ner |-> run.ner, spacy |-> run.spacy]
            /\ ret' = ExtractEntitiesOf(ner_pipeline, nlp, text, run.ner, run.spacy, skills)
     \/ \E text \in EntityTexts, source \in {"ner_pipeline", "nlp"} :
          /\ (IF source = "nlp" THEN nlp ELSE ner_pipeline) = "loaded"
          /\ op' = source
          /\ arg' = [text |-> text]
          /\ ret' = <<>>
  /\ UNCHANGED <<nlp, ner_pipeline, session, widget>>

\* the quality check of a text, or of the text of the last check once more;
\* arg is the text as the call leaves it
ValidateContentExtraction ==
  /\ op \in {"none", "validate_content_extraction"}
  /\ \E content \in EntityTexts :
       /\ op = "validate_content_extraction" => content = arg.content
       /\ op' = "validate_content_extraction"
       /\ arg' = [content |-> content]
       /\ ret' = validate_content_extraction(content)
  /\ UNCHANGED <<nlp, ner_pipeline, session, widget>>

\* faulty variant: the check also clears the skills of the record it is given
ValidateExtraction_Cleans ==
  /\ op \in {"extract_entities", "validate_extraction"}
  /\ LET entities == IF op = "extract_entities" THEN ret.entities ELSE arg.entities
     IN /\ op' = "validate_extraction"
        /\ arg' = [text |-> arg.text, entities |-> [entities EXCEPT !.skills = <<>>]]
        /\ ret' = validate_extraction(entities)
  /\ UNCHANGED <<nlp, ner_pipeline, session, widget>>

\* the caller hands the record extract_entities returned for a text to the
\* completeness check, or the record of the last check once more; arg holds
\* the record as the call leaves it
ValidateExtraction ==
  /\ op \in {"extract_entities", "validate_extraction"}
  /\ LET entities == IF op = "extract_entities" THEN ret.entities ELSE arg.entities
     IN /\ op' = "validate_extraction"
        /\ arg' = [text |-> arg.text, entities |-> entities]
        /\ ret' = validate_extraction(entities)
  /\ UNCHANGED <<nlp, ner_pipeline, session, widget>>

Next ==
  \/ NewParser
  \/ ExtractContent
  \/ ExtractEntities
  \/ ValidateContentExtraction
  \/ ValidateExtraction
  \/ Return

Spec == Init /\ [][Next]_vars

\* a caller always takes the result of a call that has returned
LiveSpec == Spec /\ WF_vars(Return)

\* ------------------------------------------------------ the Streamlit app
\* Every user event runs main() once: the file in the file_uploader widget
\* is handled, then the handler of the pressed button runs.
\* The files a user uploads: two text files, a PDF that PyPDF2 opens but
\* whose page yields no text to either library, and an empty text file.
Uploads ==
  {[name |-> "a.txt", file |-> [type |-> <<TxtMime>>, body |-> <<65>>]],
   [name |-> "b.txt", file |-> [type |-> <<TxtMime>>, body |-> <<233>>]],
   [name |-> "c.pdf",
    file |-> [type |-> <<PdfMime>>,
              body |-> [plumber |-> [opens |-> FALSE, pages |-> <<>>],
                        pypdf |-> [opens |-> TRUE,
                                   pages |-> <<[throws |-> TRUE, text |-> <<>>]>>]]]],
   [name |-> "d.txt", file |-> [type |-> <<TxtMime>>, body |-> <<>>]]}

\* validate_uploaded_file: size, exact media type, and a trial read of PDF
\* and DOCX files
ValidateUploadedFile(file) ==
  /\ file.type \in {<<PdfMime>>, <<DocxMime>>, <<TxtMime>>}
  /\ file.type = <<TxtMime>> => Len(file.body) > 0
  /\ file.type = <<PdfMime>> => file.body.pypdf.opens /\ Len(file.body.pypdf.pages) > 0
  /\ file.type = <<DocxMime>> =>
       /\ file.body.opens
       /\ \/ \E i \in 1..Len(file.body.paragraphs) : Strip(file.body.paragraphs[i]) # <<>>
          \/ \E t \in 1..Len(file.body.tables) :
               \E r \in 1..Len(file.body.tables[t]) :
                 \E c \in 1..Len(file.body.tables[t][r]) :
                   Strip(file.body.tables[t][r][c]) # <<>>

\* handle_file_upload: a valid file is stored; the flags are reset when its
\* name differs from the last one; the stored results are left alone
HandleFileUpload(s, w) ==
  IF w = <<>> \/ ~ValidateUploadedFile(w[1].file)
  THEN [session |-> s, file |-> <<>>]
  ELSE LET s1 == [s EXCEPT !.uploaded_file = w, !.file_name = <<w[1].name>>]
       IN [session |->
             IF s1.last_processed_file # <<w[1].name>>
             THEN [s1 EXCEPT !.content_extracted = <<FALSE>>,
                             !.last_processed_file = <<w[1].name>>,
                             !.processing_stage = "uploaded"]
             ELSE s1,
           file |-> w]

\* main() up to the Process button
Main(s, w) ==
  LET h == HandleFileUpload(s, w)
  IN IF h.file # <<>>
     THEN [h.session EXCEPT !.uploaded_file = h.file, !.processing_stage = "uploaded"]
     ELSE h.session

\* the user puts a file into the widget
UploadFile ==
  \E u \in Uploads :
    /\ widget' = <<u>>
    /\ session' = Main(session, <<u>>)
    /\ op' = "handle_file_upload"
    /\ arg' = u
    /\ ret' = HandleFileUpload(session, <<u>>).file
    /\ UNCHANGED <<nlp, ner_pipeline>>

\* the user takes the file out of the widget
RemoveFile ==
  /\ widget # <<>>
  /\ widget' = <<>>
  /\ session' = Main(session, <<>>)
  /\ op' = "handle_file_upload"
  /\ arg' = <<>>
  /\ ret' = <<>>
  /\ UNCHANGED <<nlp, ner_pipeline>>

\* the Process Resume button, shown when the widget holds a valid file:
\* process_resume builds a parser, extracts and stores the content, extracts
\* the entities and stores the enhanced resume.  ret.stored are the session
\* keys the run has assigned.  enhance_resume falls back on every failure and
\* does not raise.
ProcessResume ==
  /\ HandleFileUpload(session, widget).file # <<>>
  /\ LET s == Main(session, widget)
         content == ExtractContentOf(s.uploaded_file[1].file)
     IN \E spacyLoad \in SpacyLoads, hfLoads \in BOOLEAN :
          /\ nlp' = LoadModels(spacyLoad, hfLoads).nlp
          /\ ner_pipeline' = LoadModels(spacyLoad, hfLoads).ner_pipeline
          /\ arg' = s.uploaded_file[1]
          /\ \/ /\ content.status = "error"
                /\ session' = s
                /\ op' = "process_resume"
                /\ ret' = [error |-> <<"Error processing resume: ">> \o content.error,
                           stored |-> {}]
             \/ /\ content.status = "ok"
                /\ session' = [s EXCEPT !.extracted_content = <<content.text>>,
                                        !.enhanced_resume =
                                           <<[original_content |-> content.text]>>,
                                        !.processing_stage = "processed"]
                /\ op' = "process_resume"
                /\ ret' = [error |-> <<>>,
                           stored |-> {"extracted_content", "enhanced_resume",
                                       "processing_stage"}]
             \/ /\ content.status = "ok"
                /\ LoadModels(spacyLoad, hfLoads).nlp = "loaded"
                /\ session' = [s EXCEPT !.extracted_content = <<content.text>>]
                /\ op' \in {"ner_pipeline", "nlp"}
                /\ ret' = <<>>
  /\ UNCHANGED widget

\* the questionnaire form, shown in the stages 'uploaded' and 'processed':
\* a cover letter is generated from the stored enhanced resume
GenerateCoverLetter ==
  /\ Main(session, widget).processing_stage \in {"uploaded", "processed"}
  /\ LET s == Main(session, widget)
     IN session' = IF s.enhanced_resume # <<>>
                   THEN [s EXCEPT !.cover_letter =
                                     <<[resume_content |-> s.enhanced_resume[1]]>>]
                   ELSE s
  /\ op' = "generate_cover_letter"
  /\ arg' = <<>>
  /\ ret' = <<>>
  /\ UNCHANGED <<nlp, ner_pipeline, widget>>

\* the Clear All Data button deletes the session keys, the widget's among
\* them, and reruns main(); whether the widget still shows its file then is
\* left open
ClearAllSessionData ==
  /\ \E w \in {widget, <<>>} :
       /\ widget' = w
       /\ session' = Main(InitSession, w)
  /\ op' = "clear_all_session_data"
  /\ arg' = <<>>
  /\ ret' = <<>>
  /\ UNCHANGED <<nlp, ner_pipeline>>

AppNext ==
  \/ UploadFile
  \/ RemoveFile
  \/ ProcessResume
  \/ GenerateCoverLetter
  \/ ClearAllSessionData

AppSpec == Init /\ [][AppNext]_vars

\* =================================================================== claims
IsCall(name) == op = name

Format == DetectFormat(arg.type)

\* the failure reasons of extraction strategies an error message can carry
StrategyReasons == {"pdfplumber failed", "PyPDF2 also failed", "docx.Document"}

ReasonsCarried(error) == SelectSeq(error, LAMBDA part : part \in StrategyReasons)

\* a strategy fails when it throws or yields only whitespace
StrategyFailed(view) ==
  LET r == RunStrategy(view, <<>>) IN r.threw \/ Strip(r.text) = <<>>

\* the three accepted MIME types
AcceptedTypes == {<<PdfMime>>, <<DocxMime>>, <<TxtMime>>}

\* C1: every declared media type other than the three accepted MIME types is
\* rejected as unsupported with no extraction method invoked, and each
\* accepted type is dispatched to its own format.
C1_OnlyAcceptedTypesExtracted ==
  IsCall("extract_content") =>
    /\ arg.type \notin AcceptedTypes =>
         /\ ret.status = "error"
         /\ ret.error = <<"Content extraction failed: ", "Unsupported file type: ">>
         /\ ret.calls = <<>>
    /\ arg.type = <<PdfMime>> => Head(ret.calls) = "PDF"
    /\ arg.type = <<DocxMime>> => Head(ret.calls) = "DOCX"
    /\ arg.type = <<TxtMime>> => Head(ret.calls) = "PLAIN_TEXT"

\* C2: an extraction that returns without error returns a text with at least
\* one non-whitespace character.
C2_SuccessTextNonEmpty ==
  IsCall("extract_content") /\ ret.status = "ok" => Strip(ret.text) # <<>>

\* C3: when both PDF strategies throw or yield only whitespace, extraction
\* fails with an error carrying two failure reasons, in attempt order.
C3_PdfAllFailedCarriesReasons ==
  (IsCall("extract_content") /\ Format = "PDF"
     /\ StrategyFailed(arg.body.plumber) /\ StrategyFailed(arg.body.pypdf)) =>
    /\ ret.status = "error"
    /\ ReasonsCarried(ret.error) = <<"pdfplumber failed", "PyPDF2 also failed">>

\* C4: the text PDF extraction returns is the output of one strategy alone:
\* the layout-aware one if it succeeded, else the sequential-page one.
C4_PdfTextOfOneStrategy ==
  (IsCall("extract_content") /\ Format = "PDF" /\ ret.status = "ok") =>
    IF StrategyFailed(arg.body.plumber)
    THEN ret.text = RunStrategy(arg.body.pypdf, <<>>).text
    ELSE ret.text = RunStrategy(arg.body.plumber, <<>>).text

\* C5: PyPDF2 is invoked exactly when pdfplumber threw or returned only
\* whitespace, and never before pdfplumber was attempted.
C5_FallbackIffFirstFailed ==
  (IsCall("extract_content") /\ Format = "PDF") =>
    /\ (\E i \in 1..Len(ret.calls) : ret.calls[i] = "PyPDF2")
         <=> StrategyFailed(arg.body.plumber)
    /\ \A i \in 1..Len(ret.calls) :
         ret.calls[i] = "PyPDF2" => \E j \in 1..(i - 1) : ret.calls[j] = "pdfplumber"

C5_Witness ==
  /\ IsCall("extract_content") /\ Format = "PDF"
  /\ arg.body.plumber.opens /\ Len(arg.body.plumber.pages) = 2
  /\ ~arg.body.plumber.pages[1].throws /\ arg.body.plumber.pages[1].text = <<97>>
  /\ arg.body.plumber.pages[2].throws
  /\ ret.calls = <<"PDF", "pdfplumber", "PyPDF2">>
  /\ ret.status = "ok"

\* C6: plain-text extraction never fails; it returns the decoding of the
\* first encoding of the priority list that decodes the bytes without error.
FirstDecodable(bytes) ==
  CHOOSE i \in 1..Len(encodings) :
    /\ Decode(bytes, encodings[i]).ok
    /\ \A j \in 1..(i - 1) : ~Decode(bytes, encodings[j]).ok

C6_TxtFirstDecodableEncoding ==
  (IsCall("extract_content") /\ Format = "PLAIN_TEXT") =>
    /\ ret.status = "ok"
    /\ \E i \in 1..Len(encodings) : Decode(arg.body, encodings[i]).ok
    /\ ret.encoding = encodings[FirstDecodable(arg.body)]
    /\ ret.text = Decode(arg.body, encodings[FirstDecodable(arg.body)]).text

C6_Witness ==
  /\ IsCall("extract_content") /\ Format = "PLAIN_TEXT"
  /\ ~Decode(arg.body, "utf-8").ok
  /\ ret.status = "ok" /\ ret.encoding = "latin-1" /\ ret.text = <<65, 233>>

\* ---- extract_entities
Range(seq) == {seq[i] : i \in 1..Len(seq)}

Invoked(source) == source \in Range(ret.calls)

\* a source ran successfully when it was invoked and did not throw
NerRan == Invoked("ner_pipeline") /\ ~arg.ner.throws
SpacyRan == Invoked("nlp") /\ ~arg.spacy.throws

NerWords(group) ==
  LET sel == SelectSeq(arg.ner.results, LAMBDA entity : entity.entity_group = group)
  IN [i \in 1..Len(sel) |-> sel[i].word]

SpacyTexts(labels) ==
  LET sel == SelectSeq(arg.spacy.results, LAMBDA ent : ent.label_ \in labels)
  IN [i \in 1..Len(sel) |-> sel[i].text]

\* what the pattern matchers alone find in the text
PatternResults == ExtractWithRegex(arg.text, EmptyEntities, ret.entities.skills)

\* C7: extract_entities returns a record whatever the two learned sources do
\* (run, are unavailable, throw), and the record holds the pattern-matcher
\* results for the text.
C7_RecordHasPatternResults ==
  IsCall("extract_entities") =>
    /\ ret.status = "ok"
    /\ ret.entities.contact_info = PatternResults.contact_info
    /\ ret.entities.skills \in SkillOrders(arg.text)
    /\ ret.entities.experience = PatternResults.experience
    /\ ret.entities.education = PatternResults.education

C7_Witness ==
  /\ IsCall("extract_entities")
  /\ ner_pipeline = "loaded" /\ arg.ner.throws
  /\ arg.text = <<".", "555-123-4567", "jane@example.com">>
  /\ ret.entities.contact_info =
       [email |-> "jane@example.com", phone |-> <<" ", "555", "123", "4567">>]

\* C8: a source that throws does not keep the other one from running: when
\* the statistical NER source throws, the linguistic pipeline is still run
\* and its organizations and locations reach the record, and vice versa.
C8_SourcesIndependent ==
  IsCall("extract_entities") =>
    /\ (ner_pipeline = "loaded" /\ nlp = "loaded" /\ arg.ner.throws /\ ~arg.spacy.throws) =>
         /\ Invoked("nlp")
         /\ Range(SpacyTexts({"ORG"})) \subseteq Range(ret.entities.organizations)
         /\ Range(SpacyTexts({"GPE", "LOC"})) \subseteq Range(ret.entities.locations)
    /\ (ner_pipeline = "loaded" /\ nlp = "loaded" /\ arg.spacy.throws /\ ~arg.ner.throws) =>
         /\ Invoked("ner_pipeline")
         /\ Range(NerWords("ORG")) \subseteq Range(ret.entities.organizations)
         /\ Range(NerWords("LOC")) \subseteq Range(ret.entities.locations)

\* C9: the names, organizations and locations of the record come only from
\* sources that ran successfully; a source that failed contributes nothing.
FromRanSources(value, nerGroup, spacyLabels) ==
  \/ NerRan /\ value \in Range(NerWords(nerGroup))
  \/ SpacyRan /\ value \in Range(SpacyTexts(spacyLabels))

CountRan(nerGroup, spacyLabels) ==
  (IF NerRan THEN Len(NerWords(nerGroup)) ELSE 0)
  + (IF SpacyRan THEN Len(SpacyTexts(spacyLabels)) ELSE 0)

C9_OnlySuccessfulSourcesContribute ==
  IsCall("extract_entities") =>
    /\ \A o \in Range(ret.entities.organizations) : FromRanSources(o, "ORG", {"ORG"})
    /\ Len(ret.entities.organizations) <= CountRan("ORG", {"ORG"})
    /\ \A l \in Range(ret.entities.locations) : FromRanSources(l, "LOC", {"GPE", "LOC"})
    /\ Len(ret.entities.locations) <= CountRan("LOC", {"GPE", "LOC"})
    /\ "name" \in DOMAIN ret.entities.personal_info =>
         FromRanSources(ret.entities.personal_info["name"], "PER", {"PERSON"})

C9_Witness ==
  /\ IsCall("extract_entities")
  /\ NerRan /\ Invoked("nlp") /\ arg.spacy.throws
  /\ arg.ner.results = <<[entity_group |-> "ORG", word |-> "Acme"]>>
  /\ arg.spacy.results = <<[label_ |-> "GPE", text |-> "Paris"]>>
  /\ ret.entities.organizations = <<"Acme">>
  /\ ret.entities.locations = <<>>

\* C10: the record's name is the first person the statistical NER source
\* reported, else the first person the linguistic pipeline reported, else
\* absent; later persons never replace it.
PersonsReported ==
  (IF NerRan THEN NerWords("PER") ELSE <<>>)
  \o (IF SpacyRan THEN SpacyTexts({"PERSON"}) ELSE <<>>)

C10_NameFirstWins ==
  IsCall("extract_entities") =>
    IF PersonsReported = <<>>
    THEN ret.entities.personal_info = EmptyDict
    ELSE ret.entities.personal_info = [name |-> PersonsReported[1]]

C10_Witness ==
  /\ IsCall("extract_entities")
  /\ NerRan /\ SpacyRan
  /\ arg.ner.results = <<[entity_group |-> "PER", word |-> "Jane"]>>
  /\ arg.spacy.results = <<[label_ |-> "PERSON", text |-> "Ann"]>>
  /\ ret.entities.personal_info = [name |-> "Jane"]

\* C11: the organizations and the locations of a record hold no string
\* twice and are in first-seen order over the sources in priority order.
NoDuplicates(seq) == \A i, j \in 1..Len(seq) : seq[i] = seq[j] => i = j

\* the first occurrences of seq, in order
RECURSIVE FirstSeen(_, _)
FirstSeen(seq, seen) ==
  IF seq = <<>> THEN seen
  ELSE FirstSeen(Tail(seq), IF Head(seq) \in Range(seen) THEN seen ELSE Append(seen, Head(seq)))

Reported(nerGroup, spacyLabels) ==
  (IF NerRan THEN NerWords(nerGroup) ELSE <<>>)
  \o (IF SpacyRan THEN SpacyTexts(spacyLabels) ELSE <<>>)

C11_OrgsLocationsDeduplicated ==
  IsCall("extract_entities") =>
    /\ NoDuplicates(ret.entities.organizations)
    /\ NoDuplicates(ret.entities.locations)
    /\ ret.entities.organizations = FirstSeen(Reported("ORG", {"ORG"}), <<>>)
    /\ ret.entities.locations = FirstSeen(Reported("LOC", {"GPE", "LOC"}), <<>>)

\* lower-cased word
Lower(w) ==
  CASE w = "Python" -> "python"
    [] w = "JavaScript" -> "javascript"
    [] w = "Java" -> "java"
    [] w = "University" -> "university"
    [] w = "Software Engineer" -> "software engineer"
    [] w = "Developer" -> "developer"
    [] w = "Acme" -> "acme"
    [] w = "Corp" -> "corp"
    [] OTHER -> w

LowerAll(pieces) == [i \in 1..Len(pieces) |-> Lower(pieces[i])]

\* C12: the experience entries of a record are unique by the key made of the
\* lower-cased, trimmed role and the lower-cased, trimmed company.
NormalizedKey(entry) == <<LowerAll(entry.role), LowerAll(entry.company)>>

C12_ExperienceUniqueByKey ==
  IsCall("extract_entities") =>
    \A i, j \in 1..Len(ret.entities.experience) :
      NormalizedKey(ret.entities.experience[i]) = NormalizedKey(ret.entities.experience[j])
        => i = j

\* C13: every match of the "<company> - <role>" pattern gives an entry whose
\* role is the matched role keyword and whose company is the matched company.
C13_DashPatternFieldsNotSwapped ==
  IsCall("extract_entities") =>
    \A m \in Range(FindCompanyDashRole(arg.text, 1, <<>>)) :
      \E e \in Range(ret.entities.experience) : e.role = m[2] /\ e.company = m[1]

\* C14: a text containing "Software Engineer at Acme Corp" gives an entry
\* with role "Software Engineer" and company "Acme Corp".
ContainsPhrase(text, phrase) ==
  \E i \in 0..(Len(text) - Len(phrase)) : SubSeq(text, i + 1, i + Len(phrase)) = phrase

C14_SoftwareEngineerAtAcmeCorp ==
  (IsCall("extract_entities")
     /\ ContainsPhrase(arg.text, <<"Software Engineer", "at", "Acme", "Corp">>)) =>
    \E e \in Range(ret.entities.experience) :
      e.role = <<"Software Engineer">> /\ e.company = <<"Acme", "Corp">>

\* how the word spells the skill keyword it contains
SpellingIn(w, keyword) == IF Lower(w) = Lower(keyword) THEN w ELSE keyword

FirstSpelling(text, keyword) ==
  LET i == CHOOSE i \in 1..Len(text) :
             /\ keyword \in SkillsIn(text[i])
             /\ \A j \in 1..(i - 1) : keyword \notin SkillsIn(text[j])
  IN SpellingIn(text[i], keyword)

\* C15 as stated: skills are case-insensitively unique and each keeps the
\* casing of its first occurrence in the text.
C15_SkillsKeepFirstSeenCasing ==
  IsCall("extract_entities") =>
    /\ NoDuplicates(LowerAll(ret.entities.skills))
    /\ \A k \in Range(ret.entities.skills) :
         \E w \in Range(arg.text) :
           Lower(k) \in {Lower(x) : x \in SkillsIn(w)}
           /\ k = FirstSpelling(arg.text, CHOOSE x \in SkillsIn(w) : Lower(x) = Lower(k))

\* C15 amended: skills are case-insensitively unique and a text with "Python"
\* and "python" yields exactly one such skill, spelled as the keyword
\* dictionary spells it.
C15_SkillsUniqueDictionaryCasing ==
  IsCall("extract_entities") =>
    /\ NoDuplicates(LowerAll(ret.entities.skills))
    /\ Range(ret.entities.skills) \subseteq Range(skill_keywords)
    /\ (\E w \in Range(arg.text) : w \in {"Python", "python"}) =>
         Cardinality({i \in 1..Len(ret.entities.skills) :
                        Lower(ret.entities.skills[i]) = "python"}) = 1

C15_Witness ==
  /\ IsCall("extract_entities")
  /\ arg.text = <<"python", "Python">>
  /\ ret.entities.skills = <<"Python">>

\* C16: the email field is the first match of the email pattern in the text
\* and is absent when there is none, whatever the learned sources did.
EmailsOf(text) ==
  SelectSeq(text, LAMBDA w : w \in {"jane@example.com", "bob@example.org"})

C16_EmailFirstMatch ==
  IsCall("extract_entities") =>
    IF EmailsOf(arg.text) = <<>>
    THEN "email" \notin DOMAIN ret.entities.contact_info
    ELSE /\ "email" \in DOMAIN ret.entities.contact_info
         /\ ret.entities.contact_info["email"] = EmailsOf(arg.text)[1]

C16_Witness ==
  /\ IsCall("extract_entities")
  /\ arg.text = <<"bob@example.org", "jane@example.com">>
  /\ Invoked("ner_pipeline") /\ arg.ner.throws
  /\ ret.entities.contact_info = [email |-> "bob@example.org"]

\* C17: merging the same source outputs for the same text into the record a
\* second time leaves the record as it is.
MergeAgain(record) ==
  LET e1 == IF NerRan THEN ProcessNerResults(arg.ner.results, record) ELSE record
      e2 == IF SpacyRan THEN ProcessSpacyResults(arg.spacy.results, e1) ELSE e1
  IN ExtractWithRegex(arg.text, e2, record.skills)

C17_MergeIdempotent ==
  IsCall("extract_entities") => MergeAgain(ret.entities) = ret.entities

\* C18: for every non-empty text the score is min(100, 20*[length > 100]
\* + 15*(section words present) + 15*[email] + 10*[phone]
\* + 10*[bullets or enough lines]); it lies in 0..100, and a text with all
\* five section words, an email, a phone and a bullet marker scores 100.
ClaimedScore(text) ==
  Min(100, (IF ContentLen(text) > 100 THEN 20 ELSE 0)
           + 15 * found_sections(text)
           + (IF ContentHasEmail(text) THEN 15 ELSE 0)
           + (IF ContentHasPhone(text) THEN 10 ELSE 0)
           + (IF HasBullet(text) \/ CountNewlines(text) > 5 THEN 10 ELSE 0))

C18_ScoreIsWeightedSum ==
  IsCall("validate_content_extraction") /\ ContentLen(arg.content) > 0
    => /\ ret.quality_score = ClaimedScore(arg.content)
       /\ ret.quality_score \in 0..100
       /\ (/\ found_sections(arg.content) = 5
           /\ ContentHasEmail(arg.content)
           /\ ContentHasPhone(arg.content)
           /\ HasBullet(arg.content)
           => ret.quality_score = 100)

\* C19: validation never reports an error state, and for empty or
\* whitespace-only text with an empty record it reports score 0 with all six
\* findings: missing email, phone, skills and experience, fewer than 2 section
\* words, score below 50.
RecordWarnings ==
  {"No email address found", "No phone number found", "No skills detected",
   "No work experience detected"}

ContentFindings ==
  {"Content quality seems low - ensure the file is not corrupted",
   "Consider using a more structured resume format"}

C19_WorstCaseAllFindings ==
  /\ IsCall("validate_content_extraction")
       => /\ ret.valid
          /\ NoContent(arg.content)
               => /\ ret.quality_score = 0
                  /\ ContentFindings \subseteq Range(ret.suggestions)
  /\ IsCall("validate_extraction")
       => /\ ret.valid
          /\ arg.entities = EmptyEntities => RecordWarnings \subseteq Range(ret.warnings)

\* C20 as stated: a 40-character document with no section keywords, no
\* contact info and no bullets scores 0 and the warnings for its record
\* include missing email, phone, skills and experience.
Plain40(text) ==
  /\ ContentLen(text) = 40
  /\ found_sections(text) = 0
  /\ ~ContentHasEmail(text)
  /\ ~ContentHasPhone(text)
  /\ ~HasBullet(text)

C20_PlainFortyScoresZero ==
  /\ IsCall("validate_content_extraction") /\ Plain40(arg.content)
       => ret.quality_score = 0
  /\ IsCall("validate_extraction") /\ Plain40(arg.text)
       => RecordWarnings \subseteq Range(ret.warnings)

\* C20 amended: a 40-character document with no section keywords, no contact
\* info, no bullets, at most 5 lines, no skill keyword and no experience
\* phrase scores 0 and the warnings for its record include missing email,
\* phone, skills and experience.
Bare40(text) ==
  /\ Plain40(text)
  /\ CountNewlines(text) + 1 <= 5
  /\ found_skills(text) = <<>>
  /\ experience_matches(text) = <<<<>>, <<>>>>

C20_BareFortyScoresZero ==
  /\ IsCall("validate_content_extraction") /\ Bare40(arg.content)
       => ret.quality_score = 0
  /\ IsCall("validate_extraction") /\ Bare40(arg.text)
       => RecordWarnings \subseteq Range(ret.warnings)

C20_Witness ==
  /\ IsCall("validate_extraction")
  /\ arg.text = <<"lorem ipsum dolor sit amet consectetur a">>
  /\ Bare40(arg.text)
  /\ arg.entities.organizations # <<>>
  /\ Len(ret.warnings) = 4
  /\ validate_content_extraction(arg.text).quality_score = 0

\* C21: the structure check awards 10 points exactly when the text has a
\* bullet marker or more than 5 newline-delimited lines; a bullet-free text of
\* 6 lines earns them and one of 5 lines does not.
LineCount(text) == CountNewlines(text) + 1

ScoreWithLines(text) ==
  Min(100, (IF ContentLen(text) > 100 THEN 20 ELSE 0)
           + 15 * found_sections(text)
           + (IF ContentHasEmail(text) THEN 15 ELSE 0)
           + (IF ContentHasPhone(text) THEN 10 ELSE 0)
           + (IF HasBullet(text) \/ LineCount(text) > 5 THEN 10 ELSE 0))

C21_StructureByLineCount ==
  IsCall("validate_content_extraction") /\ ~NoContent(arg.content)
    => ret.quality_score = ScoreWithLines(arg.content)

\* C22: the two learned models are loaded at most once per process: once the
\* handles are set, no later run loads models again and the handles are never
\* reassigned.
C22_ModelsLoadedOnce ==
  [][nlp # "unset" =>
       /\ op' # "__init__"
       /\ nlp' = nlp
       /\ ner_pipeline' = ner_pipeline]_vars

\* C23: a learned source that does not complete is skipped after a bounded
\* time, so extract_entities still eventually returns a record.
C23_UnfinishedSourceIsSkipped == Pending ~> IsCall("extract_entities")

\* C24: in one extract_entities call each learned source is invoked at most
\* once; a source that failed is not invoked again.
TimesCalled(name) == Len(SelectSeq(ret.calls, LAMBDA c : c = name))

C24_NoRetryWithinRequest ==
  IsCall("extract_entities") =>
    /\ TimesCalled("ner_pipeline") <= 1
    /\ TimesCalled("nlp") <= 1

C24_Witness ==
  /\ IsCall("extract_entities")
  /\ TimesCalled("ner_pipeline") = 1
  /\ TimesCalled("nlp") = 1
  /\ arg.spacy.throws
  /\ ret.calls = <<"ner_pipeline", "nlp", "_extract_with_regex">>

C27_ModelsLoadIndependently ==
  IsCall("__init__") =>
    /\ arg[1] \in {"ok", "missing_then_ok"} => nlp = "loaded"
    /\ arg[2] => ner_pipeline = "loaded"

\* C28: on every path of extract_entities the pattern matchers are applied
\* to the record exactly once, so every experience-pattern match contributes
\* exactly one entry.
MatchCount(text) ==
  Len(experience_matches(text)[1]) + Len(experience_matches(text)[2])

C28_PatternsAppliedOnce ==
  IsCall("extract_entities") =>
    /\ TimesCalled("_extract_with_regex") = 1
    /\ Len(ret.entities.experience) = MatchCount(arg.text)

C28_Witness ==
  /\ IsCall("extract_entities")
  /\ Invoked("ner_pipeline") /\ arg.ner.throws
  /\ MatchCount(arg.text) = 2
  /\ Len(ret.entities.experience) = 2

\* C29: plain-text extraction returns the strict UTF-8 decoding of bytes that
\* are valid UTF-8 and otherwise the latin-1 decoding, one character per
\* byte; cp1252, iso-8859-1 and the permissive decode are never reached.
C29_TxtUtf8OrLatin1 ==
  (IsCall("extract_content") /\ Format = "PLAIN_TEXT") =>
    /\ Range(ret.calls) \subseteq {"PLAIN_TEXT", "utf-8", "latin-1"}
    /\ IF Utf8From(arg.body, 1, "strict", <<>>).ok
       THEN /\ ret.encoding = "utf-8"
            /\ ret.text = Utf8From(arg.body, 1, "strict", <<>>).text
       ELSE /\ ret.encoding = "latin-1"
            /\ ret.text = arg.body

C29_Witness ==
  /\ IsCall("extract_content") /\ Format = "PLAIN_TEXT"
  /\ arg.body = <<129, 195>>
  /\ Utf8From(arg.body, 1, "ignore", <<>>).text = <<>>
  /\ ~Cp1252(arg.body).ok
  /\ ret.text = <<129, 195>>

\* ---- the app
\* C25: a run of process_resume ends with a fatal error and no result of the
\* run stored, or with a complete pair of entity record and validation
\* report; a state with only part of the run's outputs is not reachable.
C25_ErrorOrCompletePair ==
  /\ IsCall("process_resume") =>
       IF ret.error # <<>> THEN ret.stored = {}
       ELSE {"entities", "validation_report"} \subseteq ret.stored
  /\ Pending => session.extracted_content = <<>>

\* C30: the stored results belong to the file held in uploaded_file:
\* extracted_content, enhanced_resume and cover_letter, when set, were
\* produced from that file.
ContentOfUploaded == ExtractContentOf(session.uploaded_file[1].file)

C30_ResultsOfCurrentFile ==
  /\ session.extracted_content # <<>> =>
       /\ session.uploaded_file # <<>>
       /\ ContentOfUploaded.status = "ok"
       /\ session.extracted_content[1] = ContentOfUploaded.text
  /\ session.enhanced_resume # <<>> =>
       /\ session.uploaded_file # <<>>
       /\ ContentOfUploaded.status = "ok"
       /\ session.enhanced_resume[1].original_content = ContentOfUploaded.text
  /\ session.cover_letter # <<>> =>
       /\ session.uploaded_file # <<>>
       /\ ContentOfUploaded.status = "ok"
       /\ session.cover_letter[1].resume_content.original_content
            = ContentOfUploaded.text

====
